---- MODULE Spec2Model ----
(***************************************************************************)
(* kubectl-ice: the Status and Probes commands (pkg/plugin) and the        *)
(* tabular report engine they drive.  A run of a command is a sequence of  *)
(* steps over one Table; `calls` records the table operations in the order *)
(* the command makes them.                                                 *)
(*                                                                         *)
(* Text is kept as TLA+ strings.  TLC cannot index into a string, so the   *)
(* character sequence of every string that can take part in a lexical      *)
(* comparison is given by Chars; formatting (Sprintf "%d") builds its      *)
(* result digit by digit.                                                  *)
(***************************************************************************)
EXTENDS Integers, Sequences, FiniteSets, TLC

VARIABLES cmd, pc, flags, podList, podIdx, columnInfo, table, hideColumns,
          defaultHeaderLen, calls, appended, output, ret, probeRows

vars == <<cmd, pc, flags, podList, podIdx, columnInfo, table, hideColumns,
          defaultHeaderLen, calls, appended, output, ret, probeRows>>

(***************************************************************************)
(* Bounds of the model.                                                    *)
(***************************************************************************)
\* pods returned by GetPods in one run
MaxPods == 2

(***************************************************************************)
(* Text.                                                                   *)
(***************************************************************************)
DigitText == <<"0", "1", "2", "3", "4", "5", "6", "7", "8", "9">>

\* fmt.Sprintf("%d", n) for n >= 0
RECURSIVE Itoa(_)
Itoa(n) == IF n < 10 THEN DigitText[n + 1]
           ELSE Itoa(n \div 10) \o DigitText[(n % 10) + 1]

\* the characters (as code points) of the strings that are compared lexically
Chars(s) ==
  CASE s = "" -> <<>>
    [] s = "0" -> <<48>>
    [] s = "1" -> <<49>>
    [] s = "2" -> <<50>>
    [] s = "3" -> <<51>>
    [] s = "5" -> <<53>>
    [] s = "9" -> <<57>>
    [] s = "10" -> <<49, 48>>
    [] s = "Running" -> <<82, 117, 110, 110, 105, 110, 103>>
    [] s = "Waiting" -> <<87, 97, 105, 116, 105, 110, 103>>
    [] s = "Terminated" -> <<84, 101, 114, 109, 105, 110, 97, 116, 101, 100>>
    [] s = "liveness" -> <<108, 105, 118, 101, 110, 101, 115, 115>>
    [] s = "readiness" -> <<114, 101, 97, 100, 105, 110, 101, 115, 115>>
    [] s = "startup" -> <<115, 116, 97, 114, 116, 117, 112>>
    [] s = "p1" -> <<112, 49>>
    [] s = "p2" -> <<112, 50>>
    [] s = "p3" -> <<112, 51>>

\* a < b in the byte-wise order Go gives strings
RECURSIVE SeqLess(_, _)
SeqLess(a, b) ==
  IF b = <<>> THEN FALSE
  ELSE IF a = <<>> THEN TRUE
  ELSE IF Head(a) # Head(b) THEN Head(a) < Head(b)
  ELSE SeqLess(Tail(a), Tail(b))

LexLess(a, b) == SeqLess(Chars(a), Chars(b))

\* strconv: a decimal numeral to its value; -1 when the text is no numeral
RECURSIVE DigitsValue(_, _)
DigitsValue(cs, acc) ==
  IF cs = <<>> THEN acc
  ELSE IF Head(cs) < 48 \/ Head(cs) > 57 THEN -1
  ELSE DigitsValue(Tail(cs), acc * 10 + (Head(cs) - 48))

Atoi(s) == IF Chars(s) = <<>> THEN -1 ELSE DigitsValue(Chars(s), 0)

\* strings.ToUpper on the column names a user can type
ToUpper(s) ==
  CASE s = "state" -> "STATE"
    [] s = "podname" -> "PODNAME"
    [] s = "restarts" -> "RESTARTS"
    [] OTHER -> s

(***************************************************************************)
(* Cell.                                                                   *)
(***************************************************************************)
NewCellText(display) == [text |-> display, num |-> 0, isNum |-> FALSE]

NewCellInt(display, numericValue) ==
  [text |-> display, num |-> numericValue, isNum |-> TRUE]

(***************************************************************************)
(* Table.                                                                  *)
(***************************************************************************)
EmptyTable ==
  [header |-> <<>>, headerSet |-> 0, rows |-> <<>>, hiddenColumns |-> {},
   hiddenRows |-> {}, filters |-> <<>>]

SetHeader(t, names) ==
  [t EXCEPT !.header = names, !.headerSet = t.headerSet + 1]

\* AddRow rejects a row whose width is not the header's
AddRowFails(t, cells) == Len(cells) # Len(t.header)

AddRow(t, cells) ==
  IF AddRowFails(t, cells) THEN t
  ELSE [t EXCEPT !.rows = Append(t.rows, cells)]

HideColumn(t, index) ==
  IF index \in 1..Len(t.header)
  THEN [t EXCEPT !.hiddenColumns = t.hiddenColumns \cup {index}]
  ELSE t

RECURSIVE DropRows(_, _, _)
DropRows(rows, indices, i) ==
  IF i > Len(rows) THEN <<>>
  ELSE (IF i \in indices THEN <<>> ELSE <<rows[i]>>) \o DropRows(rows, indices, i + 1)

\* HideRows gone wrong: the rows are deleted instead of marked
HideRowsDeletes(t, indices) ==
  [t EXCEPT !.rows = DropRows(t.rows, indices, 1)]

HideRows(t, indices) ==
  [t EXCEPT !.hiddenRows = t.hiddenRows \cup indices]

GetRows(t) == t.rows

\* the column a name addresses (1-based), 0 when the header has no such name;
\* names are looked up case-insensitively
ColumnIndex(header, name) ==
  IF \E i \in DOMAIN header : ToUpper(header[i]) = ToUpper(name)
  THEN CHOOSE i \in DOMAIN header :
         /\ ToUpper(header[i]) = ToUpper(name)
         /\ \A j \in DOMAIN header : ToUpper(header[j]) = ToUpper(name) => i <= j
  ELSE 0

\* the column holds numeric cells only, so its cells compare by numericValue
ColumnIsNumeric(rows, c) == \A i \in DOMAIN rows : rows[i][c].isNum

(* SetFilter.  An expression is the parsed form of "field=value",          *)
(* "field!=value" or "field in (v1,v2)": [field, op, values, wellFormed];  *)
(* wellFormed is FALSE for text the grammar rejects (MalformedFilter).     *)
SetFilterFails(t, expressions) ==
  \E i \in DOMAIN expressions :
    \/ ~expressions[i].wellFormed
    \/ ColumnIndex(t.header, expressions[i].field) = 0

SetFilter(t, expressions) ==
  IF SetFilterFails(t, expressions) THEN t
  ELSE [t EXCEPT !.filters = expressions]

\* a cell against one filter value: numeric equality on a numeric column,
\* exact match of displayText otherwise
CellMatches(rows, c, cell, value) ==
  IF ColumnIsNumeric(rows, c)
  THEN Atoi(value) # -1 /\ cell.num = Atoi(value)
  ELSE cell.text = value

ExprMatches(rows, header, row, e) ==
  LET c == ColumnIndex(header, e.field)
      hit == \E k \in DOMAIN e.values : CellMatches(rows, c, row[c], e.values[k])
  IN  IF e.op = "!=" THEN ~hit ELSE hit

\* filters combine with AND
RowMatches(t, row) ==
  \A k \in DOMAIN t.filters : ExprMatches(t.rows, t.header, row, t.filters[k])

(* SortByNames.  A key is the parsed form of a column name with an         *)
(* optional leading "!": [field, descending].                              *)
SortByNamesFails(t, keys) ==
  \E i \in DOMAIN keys : ColumnIndex(t.header, keys[i].field) = 0

\* -1, 0, 1: cell a sorts before, with, after cell b in column c
CompareCells(rows, c, a, b) ==
  IF ColumnIsNumeric(rows, c)
  THEN IF a.num < b.num THEN -1 ELSE IF a.num > b.num THEN 1 ELSE 0
  ELSE IF LexLess(a.text, b.text) THEN -1
       ELSE IF LexLess(b.text, a.text) THEN 1 ELSE 0

\* keys in priority order, falling through to the next key on a tie
RECURSIVE CompareRows(_, _, _, _, _)
CompareRows(rows, header, keys, a, b) ==
  IF keys = <<>> THEN 0
  ELSE LET c == ColumnIndex(header, Head(keys).field)
           r == CompareCells(rows, c, a[c], b[c])
       IN  IF r = 0 THEN CompareRows(rows, header, Tail(keys), a, b)
           ELSE IF Head(keys).descending THEN 0 - r ELSE r

\* r goes in front of the first row that sorts after it (stable)
RECURSIVE InsertRow(_, _, _, _, _)
InsertRow(rows, header, keys, sorted, r) ==
  IF sorted = <<>> THEN <<r>>
  ELSE IF CompareRows(rows, header, keys, r, Head(sorted)) < 0
       THEN <<r>> \o sorted
       ELSE <<Head(sorted)>> \o InsertRow(rows, header, keys, Tail(sorted), r)

RECURSIVE SortRows(_, _, _, _)
SortRows(rows, header, keys, n) ==
  IF n = 0 THEN <<>>
  ELSE InsertRow(rows, header, keys, SortRows(rows, header, keys, n - 1), rows[n])

SortByNames(t, keys) ==
  IF SortByNamesFails(t, keys) THEN t
  ELSE [t EXCEPT !.rows = SortRows(t.rows, t.header, keys, Len(t.rows))]

(* ListOutOfRange.  The statistic is the engine's own; what it can give    *)
(* back is an error, or the rows whose numericValue in the column lies     *)
(* outside some band [lo, hi] of the values the column holds.              *)
ListOutOfRangeResults(t, columnIndex, rows) ==
  LET vals == {rows[i][columnIndex].num : i \in DOMAIN rows}
      bands == {b \in vals \X vals : b[1] <= b[2]}
      outside(b) == {i \in DOMAIN rows :
                       \/ rows[i][columnIndex].num < b[1]
                       \/ rows[i][columnIndex].num > b[2]}
  IN  {[err |-> TRUE, rows |-> {}], [err |-> FALSE, rows |-> {}]}
        \cup {[err |-> FALSE, rows |-> outside(b)] : b \in bands}

(* Renderer: the visible header and the display text of the visible rows.  *)
VisibleColumns(t) == {c \in 1..Len(t.header) : c \notin t.hiddenColumns}

RowVisible(t, i) == i \notin t.hiddenRows /\ RowMatches(t, t.rows[i])

RECURSIVE PickColumns(_, _, _)
PickColumns(t, s, c) ==
  IF c > Len(s) THEN <<>>
  ELSE (IF c \in VisibleColumns(t) THEN <<s[c]>> ELSE <<>>)
         \o PickColumns(t, s, c + 1)

RowText(row) == [c \in DOMAIN row |-> row[c].text]

RECURSIVE RenderRows(_, _)
RenderRows(t, i) ==
  IF i > Len(t.rows) THEN <<>>
  ELSE (IF RowVisible(t, i)
        THEN <<[index |-> i, cells |-> PickColumns(t, RowText(t.rows[i]), 1)]>>
        ELSE <<>>)
         \o RenderRows(t, i + 1)

Render(t) == [header |-> PickColumns(t, t.header, 1), rows |-> RenderRows(t, 1)]

NoOutput == [header |-> <<>>, rows |-> <<>>]

(***************************************************************************)
(* The cluster data a run can be given.  A time is 0 (the zero time.Time)  *)
(* or a later instant; a message is the sequence of its space-separated    *)
(* words, a word being text or key=value with an optional tail.            *)
(***************************************************************************)
NoWaiting == [set |-> FALSE, reason |-> "", message |-> <<>>]

NoTerminated ==
  [set |-> FALSE, exitCode |-> 0, signal |-> 0, startedAt |-> 0, reason |-> "",
   message |-> <<>>]

NoRunning == [set |-> FALSE, startedAt |-> 0]

NoState == [waiting |-> NoWaiting, terminated |-> NoTerminated, running |-> NoRunning]

StateWaiting(reason, message) ==
  [NoState EXCEPT !.waiting = [set |-> TRUE, reason |-> reason, message |-> message]]

StateTerminated(exitCode, reason, startedAt) ==
  [NoState EXCEPT !.terminated =
     [set |-> TRUE, exitCode |-> exitCode, signal |-> 0, startedAt |-> startedAt,
      reason |-> reason, message |-> <<>>]]

StateRunning(startedAt) ==
  [NoState EXCEPT !.running = [set |-> TRUE, startedAt |-> startedAt]]

Word(k, v, tail) == [k |-> k, v |-> v, tail |-> tail]

BackOffMessage ==
  <<Word("", "back-off", ""), Word("container", "db", ""),
    Word("pod", "p1", "_default(1f2e)")>>

ContainerStatus(name, ready, started, restartCount, state, lastState) ==
  [name |-> name, ready |-> ready, started |-> started,
   restartCount |-> restartCount, state |-> state,
   lastTerminationState |-> lastState]

NoProbe ==
  [set |-> FALSE, exec |-> FALSE, httpGet |-> FALSE, grpc |-> FALSE,
   grpcServiceNil |-> FALSE, tcpSocket |-> FALSE, initialDelaySeconds |-> 0,
   periodSeconds |-> 0, timeoutSeconds |-> 0, successThreshold |-> 0,
   failureThreshold |-> 0]

Probe(exec, httpGet, grpc, grpcServiceNil, tcpSocket, delay) ==
  [set |-> TRUE, exec |-> exec, httpGet |-> httpGet, grpc |-> grpc,
   grpcServiceNil |-> grpcServiceNil, tcpSocket |-> tcpSocket,
   initialDelaySeconds |-> delay, periodSeconds |-> 10, timeoutSeconds |-> 1,
   successThreshold |-> 1, failureThreshold |-> 3]

Container(name, liveness, readiness, startup) ==
  [name |-> name, livenessProbe |-> liveness, readinessProbe |-> readiness,
   startupProbe |-> startup]

PodP1 ==
  [name |-> "p1", namespace |-> "default", nodeName |-> "n1", phase |-> "Running",
   reason |-> "", startSet |-> TRUE, startTime |-> 1, nodeLabel |-> "eu-1",
   podLabel |-> "shop",
   containerStatuses |->
     <<ContainerStatus("web", TRUE, "true", 2, StateRunning(1), NoState),
       ContainerStatus("db", FALSE, "false", 10,
                       StateWaiting("CrashLoopBackOff", BackOffMessage),
                       StateTerminated(1, "Error", 1))>>,
   initContainerStatuses |->
     <<ContainerStatus("setup", TRUE, "nil", 9,
                       StateTerminated(0, "Completed", 1), NoState)>>,
   ephemeralContainerStatuses |-> <<>>,
   containers |->
     <<Container("web", Probe(FALSE, TRUE, FALSE, FALSE, FALSE, 5),
                 Probe(TRUE, FALSE, FALSE, FALSE, TRUE, 0), NoProbe),
       Container("db", NoProbe, NoProbe,
                 Probe(TRUE, FALSE, FALSE, FALSE, FALSE, 10))>>]

PodP2 ==
  [name |-> "p2", namespace |-> "default", nodeName |-> "n2", phase |-> "Pending",
   reason |-> "", startSet |-> FALSE, startTime |-> 0, nodeLabel |-> "eu-2",
   podLabel |-> "",
   containerStatuses |->
     <<ContainerStatus("web", FALSE, "false", 2, StateRunning(1), NoState)>>,
   initContainerStatuses |-> <<>>,
   ephemeralContainerStatuses |->
     <<ContainerStatus("dbg", FALSE, "nil", 0, NoState, NoState)>>,
   containers |->
     <<Container("web", Probe(FALSE, TRUE, TRUE, FALSE, FALSE, 5), NoProbe, NoProbe)>>]

\* a pod whose liveness probe is a GRPC action without a service name
PodP3 ==
  [PodP2 EXCEPT !.name = "p3",
     !.containers =
       <<Container("web", Probe(FALSE, FALSE, TRUE, TRUE, FALSE, 0), NoProbe,
                   NoProbe)>>]

Pods == {PodP1, PodP2}

RECURSIVE SeqsUpTo(_, _)
SeqsUpTo(S, n) ==
  IF n = 0 THEN {<<>>}
  ELSE LET shorter == SeqsUpTo(S, n - 1)
       IN  shorter \cup {Append(q, x) : q \in {r \in shorter : Len(r) = n - 1}, x \in S}

\* what GetPods can return: the selected pod, or any list of pods
PodLists(args) ==
  IF args = "" THEN SeqsUpTo(Pods, MaxPods) \cup {<<PodP3>>}
  ELSE {<<p>> : p \in {q \in Pods : q.name = args}}

(***************************************************************************)
(* The command line.                                                       *)
(***************************************************************************)
Expr(field, op, values) ==
  [field |-> field, op |-> op, values |-> values, wellFormed |-> TRUE]

FilterLists ==
  { <<>>,
    <<Expr("STATE", "=", <<"Running">>)>>,
    <<Expr("state", "in", <<"Running", "Waiting">>), Expr("RESTARTS", "!=", <<"2">>)>>,
    <<Expr("EXIT-CODE", "=", <<"0">>)>>,
    <<Expr("PROBE", "=", <<"liveness">>)>>,
    <<[field |-> "STATE", op |-> "in", values |-> <<>>, wellFormed |-> FALSE]>> }

Key(field, descending) == [field |-> field, descending |-> descending]

SortLists ==
  { <<>>,
    <<Key("RESTARTS", FALSE)>>,
    <<Key("STATE", FALSE), Key("RESTARTS", TRUE)>>,
    <<Key("podname", TRUE)>>,
    <<Key("DELAY", TRUE)>> }

FlagSets ==
  [treeView : BOOLEAN, showDetails : BOOLEAN, showPrevious : BOOLEAN,
   showOddities : BOOLEAN, labelName : {"", "zone"}, labelPodName : {"", "app"},
   containerName : {"", "web"}, args : {"", "p1"},
   filterList : FilterLists, sortList : SortLists]

NoFlags ==
  [treeView |-> FALSE, showDetails |-> FALSE, showPrevious |-> FALSE,
   showOddities |-> FALSE, labelName |-> "", labelPodName |-> "",
   containerName |-> "", args |-> "", filterList |-> <<>>, sortList |-> <<>>]

(***************************************************************************)
(* containerInfomation: the leading columns every command shares.          *)
(***************************************************************************)
LabelNames(f) ==
  (IF f.labelName # "" THEN <<f.labelName>> ELSE <<>>)
    \o (IF f.labelPodName # "" THEN <<f.labelPodName>> ELSE <<>>)

GetDefaultHead(f) ==
  (IF f.treeView THEN <<"NAMESPACE", "NODE">>
   ELSE <<"T", "NAMESPACE", "NODE", "PODNAME", "CONTAINER">>)
    \o LabelNames(f)

LabelValues(f, info) ==
  (IF f.labelName # "" THEN <<NewCellText(info.labelValue)>> ELSE <<>>)
    \o (IF f.labelPodName # "" THEN <<NewCellText(info.labelPodValue)>> ELSE <<>>)

GetDefaultCells(f, info) ==
  (IF f.treeView
   THEN <<NewCellText(info.namespace), NewCellText(info.nodeName)>>
   ELSE <<NewCellText(info.containerType), NewCellText(info.namespace),
          NewCellText(info.nodeName), NewCellText(info.podName),
          NewCellText(info.containerName)>>)
    \o LabelValues(f, info)

NoInfo ==
  [podName |-> "", namespace |-> "", nodeName |-> "", containerType |-> "",
   containerName |-> "", labelValue |-> "", labelPodValue |-> ""]

LoadFromPod(info, pod) ==
  [info EXCEPT !.podName = pod.name, !.namespace = pod.namespace,
               !.nodeName = pod.nodeName]

\* the leading columns a command does not show: the pod name when a single
\* pod was selected
SetVisibleColumns(t, f) ==
  IF f.args # "" /\ ColumnIndex(t.header, "PODNAME") # 0
  THEN HideColumn(t, ColumnIndex(t.header, "PODNAME"))
  ELSE t

skipContainerName(f, name) == f.containerName # "" /\ f.containerName # name

\* ApplyRow hands the default cells followed by the builder's cells to AddRow
\* and returns nothing
ApplyRow(t, f, info, cells) == AddRow(t, GetDefaultCells(f, info) \o cells)

ApplyRowFails(t, f, info, cells) == AddRowFails(t, GetDefaultCells(f, info) \o cells)

Call(op, arg, err) == [op |-> op, arg |-> arg, err |-> err, set |-> {}]

\* where the log holds a call of op
CallsOf(op) == {i \in DOMAIN calls : calls[i].op = op}

\* a call whose argument is a set of row indices
CallSet(op, set) == [op |-> op, arg |-> Cardinality(set), err |-> FALSE, set |-> set]

\* the rows of one pod, in order, through ApplyRow: the table, the log of
\* calls and the rows as handed over
RECURSIVE ApplyRows(_, _, _)
ApplyRows(acc, f, todo) ==
  IF todo = <<>> THEN acc
  ELSE LET info == Head(todo).info
           cells == Head(todo).cells
           full == GetDefaultCells(f, info) \o cells
       IN  ApplyRows(
             [table |-> ApplyRow(acc.table, f, info, cells),
              calls |-> Append(acc.calls,
                               Call("AddRow", Len(full),
                                    ApplyRowFails(acc.table, f, info, cells))),
              appended |-> Append(acc.appended, full)],
             f, Tail(todo))

(***************************************************************************)
(* status: the row builders.                                               *)
(***************************************************************************)
\* Time.Format(timestampFormat)
TimeFormat(t) == IF t = 0 THEN "0001-01-01 00:00:00" ELSE "2022-05-01 10:00:00"

\* duration.HumanDuration(time.Since(t)); since the zero time the duration
\* saturates
HumanDurationSince(t) == IF t = 0 THEN "292y" ELSE "5m"

\* fmt.Sprintf("%t", b)
BoolText(b) == IF b THEN "true" ELSE "false"

WordText(w) == IF w.k = "" THEN w.v ELSE w.k \o "=" \o w.v \o w.tail

RECURSIVE JoinWords(_)
JoinWords(ws) ==
  IF ws = <<>> THEN ""
  ELSE IF Len(ws) = 1 THEN WordText(Head(ws))
  ELSE WordText(Head(ws)) \o " " \o JoinWords(Tail(ws))

RECURSIVE KeepWords(_, _, _)
KeepWords(ws, podName, containerName) ==
  IF ws = <<>> THEN <<>>
  ELSE LET w == Head(ws)
           drop == \/ (w.k = "container" /\ w.v = containerName /\ w.tail = "")
                   \/ (w.k = "pod" /\ w.v = podName /\ w.tail # "")
       IN  (IF drop THEN <<>> ELSE <<w>>) \o KeepWords(Tail(ws), podName, containerName)

trimStatusMessage(message, podName, containerName) ==
  IF message = <<>> \/ podName = "" \/ containerName = "" THEN ""
  ELSE JoinWords(KeepWords(message, podName, containerName))

\* the RESTARTS cell gone wrong: the count as text only
RestartsCellAsText(container) == NewCellText(Itoa(container.restartCount))

\* the RESTARTS cell of a container: the count as text, and as a number
RestartsCell(container) ==
  NewCellInt(Itoa(container.restartCount), container.restartCount)

\* the Pod/ line gone wrong: the message cell is missing
podStatusBuildRowShort(pod, info, showPrevious) ==
  <<NewCellText("Pod/" \o info.podName), NewCellText(""), NewCellText(""),
    NewCellInt("0", 0), NewCellText(pod.phase), NewCellText(pod.reason),
    NewCellText(""), NewCellText(""), NewCellText(""), NewCellText("")>>

podStatusBuildRow(pod, info, showPrevious) ==
  LET timestamp == IF pod.startSet THEN TimeFormat(pod.startTime) ELSE ""
      age == IF pod.startSet THEN HumanDurationSince(pod.startTime) ELSE ""
  IN  <<NewCellText("Pod/" \o info.podName),
        NewCellText(""),
        NewCellText(""),
        NewCellInt("0", 0),
        NewCellText(pod.phase),
        NewCellText(pod.reason),
        NewCellText(""),
        NewCellText(""),
        NewCellText(timestamp),
        NewCellText(age),
        NewCellText("")>>

NamePrefix(containerType) ==
  CASE containerType = "S" -> "Container/"
    [] containerType = "I" -> "InitContainer/"
    [] containerType = "E" -> "EphemeralContainer/"
    [] OTHER -> ""

statusBuildRow(container, f, info, showPrevious) ==
  LET state == IF showPrevious THEN container.lastTerminationState
               ELSE container.state
      w == state.waiting
      t == state.terminated
      r == state.running
      strState == IF r.set THEN "Running"
                  ELSE IF t.set THEN "Terminated"
                  ELSE IF w.set THEN "Waiting" ELSE ""
      reason == IF t.set THEN t.reason ELSE IF w.set THEN w.reason ELSE ""
      message == IF t.set THEN t.message ELSE IF w.set THEN w.message ELSE <<>>
      exitCode == IF t.set THEN Itoa(t.exitCode) ELSE ""
      rawExitCode == IF t.set THEN t.exitCode ELSE 0
      signal == IF t.set THEN Itoa(t.signal) ELSE ""
      rawSignal == IF t.set THEN t.signal ELSE 0
      startTime == IF r.set THEN r.startedAt ELSE IF t.set THEN t.startedAt ELSE 0
      startedAt == IF r.set THEN TimeFormat(r.startedAt)
                   ELSE IF t.set THEN TimeFormat(t.startedAt) ELSE ""
      skipAgeCalculation == w.set
      started == IF container.started = "nil" THEN "" ELSE container.started
      ready == BoolText(container.ready)
      age == IF skipAgeCalculation THEN "" ELSE HumanDurationSince(startTime)
      \* the tree branch glyph is written "+-" here
      name == IF f.treeView
              THEN <<NewCellText("+-" \o NamePrefix(info.containerType)
                                   \o info.containerName)>>
              ELSE <<>>
  IN  name \o
      <<NewCellText(ready),
        NewCellText(started),
        RestartsCell(container),
        NewCellText(strState),
        NewCellText(reason),
        NewCellInt(exitCode, rawExitCode),
        NewCellInt(signal, rawSignal),
        NewCellText(startedAt),
        NewCellText(age),
        NewCellText(trimStatusMessage(message, info.podName, info.containerName))>>

(***************************************************************************)
(* The run of a command.                                                   *)
(***************************************************************************)
Init ==
  /\ cmd \in {"status", "probes"}
  /\ pc = "start"
  /\ flags = NoFlags
  /\ podList = <<>>
  /\ podIdx = 1
  /\ columnInfo = NoInfo
  /\ table = EmptyTable
  /\ hideColumns = <<>>
  /\ defaultHeaderLen = 0
  /\ calls = <<>>
  /\ appended = <<>>
  /\ output = NoOutput
  /\ ret = "running"
  /\ probeRows = <<>>

\* return err
ReturnError ==
  /\ pc' = "done"
  /\ ret' = "error"

\* LoadConfig, processCommonFlags or GetPods failed: Status returns the error
StatusFetchError ==
  /\ cmd = "status"
  /\ pc = "start"
  /\ ReturnError
  /\ UNCHANGED <<cmd, flags, podList, podIdx, columnInfo, table, hideColumns,
                 defaultHeaderLen, calls, appended, output, probeRows>>

\* the flags are read and the pods fetched
StatusFetch ==
  /\ cmd = "status"
  /\ pc = "start"
  /\ \E f \in FlagSets :
       /\ f.labelPodName = ""
       /\ flags' = f
       /\ \E pl \in PodLists(f.args) : podList' = pl
  /\ pc' = "header"
  /\ UNCHANGED <<cmd, podIdx, columnInfo, table, hideColumns, defaultHeaderLen,
                 calls, appended, output, ret, probeRows>>

\* the column ids to hide, counted from the end of the default head
StatusHideList(f) ==
  LET byView == IF f.treeView
                THEN IF f.showDetails THEN <<9>> ELSE <<8, 10>>
                ELSE IF f.showDetails THEN <<8>> ELSE <<>>
      byPrevious == IF f.showPrevious THEN <<0, 1, 2>> ELSE <<>>
      chosen == byView \o byPrevious
  IN  IF Len(chosen) = 0 THEN <<7, 9>> ELSE chosen

StatusHead(f) ==
  GetDefaultHead(f)
    \o (IF f.treeView THEN <<"NAME">> ELSE <<>>)
    \o <<"READY", "STARTED", "RESTARTS", "STATE", "REASON", "EXIT-CODE",
         "SIGNAL", "TIMESTAMP", "AGE", "MESSAGE">>

StatusSetHeader ==
  /\ cmd = "status"
  /\ pc = "header"
  /\ defaultHeaderLen' = Len(GetDefaultHead(flags))
  /\ hideColumns' = StatusHideList(flags)
  /\ table' = SetHeader(table, StatusHead(flags))
  /\ calls' = Append(calls, Call("SetHeader", Len(StatusHead(flags)), FALSE))
  /\ pc' = "filter"
  /\ UNCHANGED <<cmd, flags, podList, podIdx, columnInfo, appended, output, ret,
                 probeRows>>

\* the filter step gone wrong: a single expression is not handed to SetFilter
StatusSetFilterOffByOne ==
  /\ cmd = "status"
  /\ pc = "filter"
  /\ IF Len(flags.filterList) > 1
     THEN /\ table' = SetFilter(table, flags.filterList)
          /\ calls' = Append(calls, Call("SetFilter", Len(flags.filterList),
                                         SetFilterFails(table, flags.filterList)))
          /\ IF SetFilterFails(table, flags.filterList)
             THEN ReturnError
             ELSE pc' = "hide" /\ ret' = ret
     ELSE /\ pc' = "hide"
          /\ UNCHANGED <<table, calls, ret>>
  /\ UNCHANGED <<cmd, flags, podList, podIdx, columnInfo, hideColumns,
                 defaultHeaderLen, appended, output, probeRows>>

StatusSetFilter ==
  /\ cmd = "status"
  /\ pc = "filter"
  /\ IF Len(flags.filterList) >= 1
     THEN /\ table' = SetFilter(table, flags.filterList)
          /\ calls' = Append(calls, Call("SetFilter", Len(flags.filterList),
                                         SetFilterFails(table, flags.filterList)))
          /\ IF SetFilterFails(table, flags.filterList)
             THEN ReturnError
             ELSE pc' = "hide" /\ ret' = ret
     ELSE /\ pc' = "hide"
          /\ UNCHANGED <<table, calls, ret>>
  /\ UNCHANGED <<cmd, flags, podList, podIdx, columnInfo, hideColumns,
                 defaultHeaderLen, appended, output, probeRows>>

\* HideColumn(defaultHeaderLen + id) for every id; columns are 1-based here
RECURSIVE HideAll(_, _, _)
HideAll(acc, base, ids) ==
  IF ids = <<>> THEN acc
  ELSE HideAll([table |-> HideColumn(acc.table, base + Head(ids) + 1),
                calls |-> Append(acc.calls,
                                 Call("HideColumn", base + Head(ids) + 1, FALSE))],
               base, Tail(ids))

\* the step after the rows gone wrong: the filters are configured again
StatusAfterRowsToFilter(f) == "filter"

\* where the run goes once the rows are in
StatusAfterRows(f) == IF f.treeView THEN "render" ELSE "sort"

StatusHideColumns ==
  /\ cmd = "status"
  /\ pc = "hide"
  /\ LET r == HideAll([table |-> SetVisibleColumns(table, flags), calls |-> calls],
                      defaultHeaderLen, hideColumns)
     IN  /\ table' = r.table
         /\ calls' = r.calls
  /\ pc' = IF Len(podList) = 0 THEN StatusAfterRows(flags) ELSE "pods"
  /\ UNCHANGED <<cmd, flags, podList, podIdx, columnInfo, hideColumns,
                 defaultHeaderLen, appended, output, ret, probeRows>>

\* the rows of the container statuses of one kind that are not skipped
RECURSIVE StatusContainerRows(_, _, _, _)
StatusContainerRows(statuses, f, info, containerType) ==
  IF statuses = <<>> THEN <<>>
  ELSE LET c == Head(statuses)
           i == [info EXCEPT !.containerType = containerType,
                             !.containerName = c.name]
       IN  (IF skipContainerName(f, c.name) THEN <<>>
            ELSE <<[info |-> i, cells |-> statusBuildRow(c, f, i, f.showPrevious)]>>)
             \o StatusContainerRows(Tail(statuses), f, info, containerType)

\* columnInfo.containerName is left at the last container that was not skipped
RECURSIVE LastContainerName(_, _, _)
LastContainerName(statuses, f, name) ==
  IF statuses = <<>> THEN name
  ELSE LastContainerName(Tail(statuses), f,
                         IF skipContainerName(f, Head(statuses).name) THEN name
                         ELSE Head(statuses).name)

\* one turn of the loop over podList
StatusPod ==
  /\ cmd = "status"
  /\ pc = "pods"
  /\ podIdx <= Len(podList)
  /\ LET pod == podList[podIdx]
         loaded == LoadFromPod(columnInfo, pod)
         podRow == IF flags.treeView
                   THEN <<[info |-> loaded,
                           cells |-> podStatusBuildRow(pod, loaded, flags.showPrevious)]>>
                   ELSE <<>>
         info == IF flags.labelName # ""
                 THEN [loaded EXCEPT !.labelValue = pod.nodeLabel]
                 ELSE loaded
         all == pod.containerStatuses \o pod.initContainerStatuses
                  \o pod.ephemeralContainerStatuses
         todo == podRow
                   \o StatusContainerRows(pod.containerStatuses, flags, info, "S")
                   \o StatusContainerRows(pod.initContainerStatuses, flags, info, "I")
                   \o StatusContainerRows(pod.ephemeralContainerStatuses, flags, info, "E")
         r == ApplyRows([table |-> table, calls |-> calls, appended |-> appended],
                        flags, todo)
     IN  /\ table' = r.table
         /\ calls' = r.calls
         /\ appended' = r.appended
         /\ columnInfo' = [info EXCEPT !.containerType = "E",
                             !.containerName =
                               LastContainerName(all, flags, columnInfo.containerName)]
  /\ podIdx' = podIdx + 1
  /\ pc' = IF podIdx = Len(podList) THEN StatusAfterRows(flags) ELSE "pods"
  /\ UNCHANGED <<cmd, flags, podList, hideColumns, defaultHeaderLen, output, ret,
                 probeRows>>

\* the sort step gone wrong: the error of SortByNames is dropped
StatusSortDropsError ==
  /\ cmd = "status"
  /\ pc = "sort"
  /\ table' = SortByNames(table, flags.sortList)
  /\ calls' = Append(calls, Call("SortByNames", Len(flags.sortList),
                                 SortByNamesFails(table, flags.sortList)))
  /\ pc' = IF ~flags.showPrevious /\ flags.showOddities THEN "oddities" ELSE "render"
  /\ ret' = ret
  /\ UNCHANGED <<cmd, flags, podList, podIdx, columnInfo, hideColumns,
                 defaultHeaderLen, appended, output, probeRows>>

StatusSort ==
  /\ cmd = "status"
  /\ pc = "sort"
  /\ table' = SortByNames(table, flags.sortList)
  /\ calls' = Append(calls, Call("SortByNames", Len(flags.sortList),
                                 SortByNamesFails(table, flags.sortList)))
  /\ IF SortByNamesFails(table, flags.sortList)
     THEN ReturnError
     ELSE /\ pc' = IF ~flags.showPrevious /\ flags.showOddities
                   THEN "oddities" ELSE "render"
          /\ ret' = ret
  /\ UNCHANGED <<cmd, flags, podList, podIdx, columnInfo, hideColumns,
                 defaultHeaderLen, appended, output, probeRows>>

\* the column Status hands to ListOutOfRange (0-based in the source)
StatusOdditiesColumn == 6

StatusOddities ==
  /\ cmd = "status"
  /\ pc = "oddities"
  /\ \E res \in ListOutOfRangeResults(table, StatusOdditiesColumn + 1, GetRows(table)) :
       IF res.err
       THEN /\ calls' = Append(calls, Call("ListOutOfRange", StatusOdditiesColumn + 1, TRUE))
            /\ table' = table
            /\ ReturnError
       ELSE /\ calls' = calls \o <<Call("ListOutOfRange", StatusOdditiesColumn + 1, FALSE),
                                   CallSet("HideRows", res.rows)>>
            /\ table' = HideRows(table, res.rows)
            /\ pc' = "render"
            /\ ret' = ret
  /\ UNCHANGED <<cmd, flags, podList, podIdx, columnInfo, hideColumns,
                 defaultHeaderLen, appended, output, probeRows>>

\* outputTableAs, then return nil
StatusRender ==
  /\ cmd = "status"
  /\ pc = "render"
  /\ output' = Render(table)
  /\ calls' = Append(calls, Call("Render", 0, FALSE))
  /\ pc' = "done"
  /\ ret' = "nil"
  /\ UNCHANGED <<cmd, flags, podList, podIdx, columnInfo, table, hideColumns,
                 defaultHeaderLen, appended, probeRows>>

StatusNext ==
  \/ StatusFetchError
  \/ StatusFetch
  \/ StatusSetHeader
  \/ StatusSetFilter
  \/ StatusHideColumns
  \/ StatusPod
  \/ StatusSort
  \/ StatusOddities
  \/ StatusRender

(***************************************************************************)
(* probes: the row builders.                                               *)
(***************************************************************************)
\* the actions of one probe, in the order Exec, HTTPGet, GRPC, TCPSocket; one
\* item is reused, so an action text survives into a GRPC entry that has a
\* service name
buildProbeAction(name, probe) ==
  LET item(actionName, action) ==
        [probeName |-> name, actionName |-> actionName, action |-> action,
         probe |-> probe]
      execText == "cat /tmp/healthy"
      httpText == "http://:8080/healthz"
      afterExec == IF probe.exec THEN execText ELSE ""
      afterHttp == IF probe.httpGet THEN httpText ELSE afterExec
      grpcText == afterHttp \o ":9000"
  IN  (IF probe.exec THEN <<item("Exec", execText)>> ELSE <<>>)
        \o (IF probe.httpGet THEN <<item("HTTPGet", httpText)>> ELSE <<>>)
        \o (IF probe.grpc THEN <<item("GRPC", grpcText)>> ELSE <<>>)
        \o (IF probe.tcpSocket THEN <<item("TCPSocket", ":5432")>> ELSE <<>>)

\* the GRPC branch reads *probe.GRPC.Service exactly when Service is nil
buildProbeActionPanics(probe) == probe.grpc /\ probe.grpcServiceNil

ProbeKeys == {"liveness", "readiness", "startup"}

\* the map buildProbeList returns, as key -> actions; an absent key maps to <<>>
buildProbeList(container) ==
  [k \in ProbeKeys |->
     CASE k = "liveness" ->
            IF container.livenessProbe.set
            THEN buildProbeAction("liveness", container.livenessProbe) ELSE <<>>
       [] k = "readiness" ->
            IF container.readinessProbe.set
            THEN buildProbeAction("readiness", container.readinessProbe) ELSE <<>>
       [] k = "startup" ->
            IF container.startupProbe.set
            THEN buildProbeAction("liveness", container.startupProbe) ELSE <<>>]

buildProbeListPanics(container) ==
  \/ container.livenessProbe.set /\ buildProbeActionPanics(container.livenessProbe)
  \/ container.readinessProbe.set /\ buildProbeActionPanics(container.readinessProbe)
  \/ container.startupProbe.set /\ buildProbeActionPanics(container.startupProbe)

buildTreeCell(info, cellList) ==
  Append(cellList,
         NewCellText("+-" \o NamePrefix(info.containerType) \o info.containerName))

podProbesBuildRow(pod, info) ==
  <<NewCellText("Pod/" \o info.podName),
    NewCellText(""),
    NewCellText(""),
    NewCellText(""),
    NewCellText(""),
    NewCellText(""),
    NewCellText(""),
    NewCellText(""),
    NewCellText("")>>

probesBuildRow(f, info, action) ==
  (IF f.treeView THEN buildTreeCell(info, <<>>) ELSE <<>>)
    \o <<NewCellText(action.probeName),
         NewCellInt(Itoa(action.probe.initialDelaySeconds), action.probe.initialDelaySeconds),
         NewCellInt(Itoa(action.probe.periodSeconds), action.probe.periodSeconds),
         NewCellInt(Itoa(action.probe.timeoutSeconds), action.probe.timeoutSeconds),
         NewCellInt(Itoa(action.probe.successThreshold), action.probe.successThreshold),
         NewCellInt(Itoa(action.probe.failureThreshold), action.probe.failureThreshold),
         NewCellText(action.actionName),
         NewCellText(action.action)>>

\* the orders in which a range over the probe map can visit its keys
KeyOrders ==
  {o \in [1..3 -> ProbeKeys] : \A i, j \in 1..3 : i # j => o[i] # o[j]}

RECURSIVE ProbeActionRows(_, _, _)
ProbeActionRows(f, info, actions) ==
  IF actions = <<>> THEN <<>>
  ELSE <<[info |-> info, cells |-> probesBuildRow(f, info, Head(actions)),
          key |-> "", built |-> Head(actions)]>>
         \o ProbeActionRows(f, info, Tail(actions))

\* the rows of one container, its probe map visited in the given order; each
\* row keeps the map key it was built under
ProbeRowsOf(f, info, container, order) ==
  LET probes == buildProbeList(container)
      under(k) == LET rs == ProbeActionRows(f, info, probes[k])
                  IN  [i \in DOMAIN rs |-> [rs[i] EXCEPT !.key = k]]
  IN  under(order[1]) \o under(order[2]) \o under(order[3])

\* the rows of the containers from index i on, up to a container whose probe
\* list cannot be built
RECURSIVE ProbesContainerRows(_, _, _, _, _)
ProbesContainerRows(containers, f, info, orders, i) ==
  IF i > Len(containers) THEN [rows |-> <<>>, panicked |-> FALSE]
  ELSE LET c == containers[i]
           ci == [info EXCEPT !.containerType = "S", !.containerName = c.name]
           rest == ProbesContainerRows(containers, f, info, orders, i + 1)
       IN  IF skipContainerName(f, c.name) THEN rest
           ELSE IF buildProbeListPanics(c) THEN [rows |-> <<>>, panicked |-> TRUE]
           ELSE [rows |-> ProbeRowsOf(f, ci, c, orders[i]) \o rest.rows,
                 panicked |-> rest.panicked]

ProbesHead(f) ==
  GetDefaultHead(f)
    \o (IF f.treeView THEN <<"NAME">> ELSE <<>>)
    \o <<"PROBE", "DELAY", "PERIOD", "TIMEOUT", "SUCCESS", "FAILURE", "CHECK",
         "ACTION">>

\* LoadConfig, processCommonFlags, GetPods or a label lookup failed
ProbesFetchError ==
  /\ cmd = "probes"
  /\ pc = "start"
  /\ ReturnError
  /\ UNCHANGED <<cmd, flags, podList, podIdx, columnInfo, table, hideColumns,
                 defaultHeaderLen, calls, appended, output, probeRows>>

ProbesFetch ==
  /\ cmd = "probes"
  /\ pc = "start"
  /\ \E f \in FlagSets :
       /\ ~f.showDetails /\ ~f.showPrevious /\ ~f.showOddities
       /\ flags' = f
       /\ \E pl \in PodLists(f.args) : podList' = pl
  /\ pc' = "header"
  /\ UNCHANGED <<cmd, podIdx, columnInfo, table, hideColumns, defaultHeaderLen,
                 calls, appended, output, ret, probeRows>>

ProbesSetHeader ==
  /\ cmd = "probes"
  /\ pc = "header"
  /\ table' = SetHeader(table, ProbesHead(flags))
  /\ calls' = Append(calls, Call("SetHeader", Len(ProbesHead(flags)), FALSE))
  /\ pc' = "filter"
  /\ UNCHANGED <<cmd, flags, podList, podIdx, columnInfo, hideColumns,
                 defaultHeaderLen, appended, output, ret, probeRows>>

\* where the run goes once SetFilter and SetVisibleColumns are through
ProbesAfterFilter == IF Len(podList) = 0 THEN "sort" ELSE "pods"

ProbesSetFilter ==
  /\ cmd = "probes"
  /\ pc = "filter"
  /\ IF Len(flags.filterList) >= 1
     THEN /\ calls' = Append(calls, Call("SetFilter", Len(flags.filterList),
                                         SetFilterFails(table, flags.filterList)))
          /\ IF SetFilterFails(table, flags.filterList)
             THEN table' = table /\ ReturnError
             ELSE /\ table' = SetVisibleColumns(SetFilter(table, flags.filterList), flags)
                  /\ pc' = ProbesAfterFilter
                  /\ ret' = ret
     ELSE /\ table' = SetVisibleColumns(table, flags)
          /\ pc' = ProbesAfterFilter
          /\ UNCHANGED <<calls, ret>>
  /\ UNCHANGED <<cmd, flags, podList, podIdx, columnInfo, hideColumns,
                 defaultHeaderLen, appended, output, probeRows>>

RECURSIVE RowKeys(_)
RowKeys(todo) ==
  IF todo = <<>> THEN <<>>
  ELSE <<[key |-> Head(todo).key, container |-> Head(todo).info.containerName,
          pod |-> Head(todo).info.podName]>> \o RowKeys(Tail(todo))

\* one turn of the loop over podList
ProbesPod ==
  /\ cmd = "probes"
  /\ pc = "pods"
  /\ podIdx <= Len(podList)
  /\ \E orders \in [1..Len(podList[podIdx].containers) -> KeyOrders] :
       LET pod == podList[podIdx]
           loaded == LoadFromPod(columnInfo, pod)
           withNode == IF flags.labelName # ""
                       THEN [loaded EXCEPT !.labelValue = pod.nodeLabel]
                       ELSE loaded
           info == IF flags.labelPodName # ""
                   THEN [withNode EXCEPT !.labelPodValue = pod.podLabel]
                   ELSE withNode
           podRow == IF flags.treeView
                     THEN <<[info |-> info, cells |-> podProbesBuildRow(pod, info),
                             key |-> "", built |-> <<>>]>>
                     ELSE <<>>
           hidden == IF flags.treeView
                     THEN [table |-> table, calls |-> calls]
                     ELSE [table |-> HideColumn(table, 1),
                           calls |-> Append(calls, Call("HideColumn", 1, FALSE))]
           built == ProbesContainerRows(pod.containers, flags, info, orders, 1)
           r == ApplyRows([table |-> hidden.table, calls |-> hidden.calls,
                           appended |-> appended],
                          flags, podRow \o built.rows)
       IN  /\ table' = r.table
           /\ calls' = r.calls
           /\ appended' = r.appended
           /\ probeRows' = probeRows \o RowKeys(podRow \o built.rows)
           /\ columnInfo' = info
           /\ IF built.panicked
              THEN pc' = "done" /\ ret' = "panic"
              ELSE /\ pc' = IF podIdx = Len(podList) THEN "sort" ELSE "pods"
                   /\ ret' = ret
  /\ podIdx' = podIdx + 1
  /\ UNCHANGED <<cmd, flags, podList, hideColumns, defaultHeaderLen, output>>

ProbesSort ==
  /\ cmd = "probes"
  /\ pc = "sort"
  /\ table' = SortByNames(table, flags.sortList)
  /\ calls' = Append(calls, Call("SortByNames", Len(flags.sortList),
                                 SortByNamesFails(table, flags.sortList)))
  /\ IF SortByNamesFails(table, flags.sortList)
     THEN ReturnError
     ELSE pc' = "render" /\ ret' = ret
  /\ UNCHANGED <<cmd, flags, podList, podIdx, columnInfo, hideColumns,
                 defaultHeaderLen, appended, output, probeRows>>

\* outputTableAs, then return nil
ProbesRender ==
  /\ cmd = "probes"
  /\ pc = "render"
  /\ output' = Render(table)
  /\ calls' = Append(calls, Call("Render", 0, FALSE))
  /\ pc' = "done"
  /\ ret' = "nil"
  /\ UNCHANGED <<cmd, flags, podList, podIdx, columnInfo, table, hideColumns,
                 defaultHeaderLen, appended, probeRows>>

ProbesNext ==
  \/ ProbesFetchError
  \/ ProbesFetch
  \/ ProbesSetHeader
  \/ ProbesSetFilter
  \/ ProbesPod
  \/ ProbesSort
  \/ ProbesRender

Next == StatusNext \/ ProbesNext

Spec == Init /\ [][Next]_vars

(***************************************************************************)
(* The table on its own: rows are appended and columns and rows hidden in  *)
(* any order, until the table is rendered.                                 *)
(***************************************************************************)
\* rows a caller appends
MaxTableRows == 2

\* HideColumn and HideRows calls a caller makes
MaxTableHides == 3

TableHeader == <<"NAME", "RESTARTS", "STATE">>

TableRowChoices ==
  { <<NewCellText("a"), NewCellInt("0", 0), NewCellText("Running")>>,
    <<NewCellText("b"), NewCellInt("50", 50), NewCellText("Waiting")>>,
    <<NewCellText("c"), NewCellInt("1", 1)>> }

TableInit ==
  /\ cmd = "table"
  /\ pc = "open"
  /\ flags = NoFlags
  /\ podList = <<>>
  /\ podIdx = 1
  /\ columnInfo = NoInfo
  /\ table = SetHeader(EmptyTable, TableHeader)
  /\ hideColumns = <<>>
  /\ defaultHeaderLen = 0
  /\ calls = <<>>
  /\ appended = <<>>
  /\ output = NoOutput
  /\ ret = "running"
  /\ probeRows = <<>>

TableIdle ==
  UNCHANGED <<cmd, flags, podList, podIdx, columnInfo, hideColumns,
              defaultHeaderLen, ret, probeRows>>

TableAddRow ==
  /\ cmd = "table"
  /\ pc = "open"
  /\ Cardinality(CallsOf("AddRow")) < MaxTableRows
  /\ \E cells \in TableRowChoices :
       /\ table' = AddRow(table, cells)
       /\ calls' = Append(calls, Call("AddRow", Len(cells), AddRowFails(table, cells)))
       /\ appended' = IF AddRowFails(table, cells) THEN appended
                      ELSE Append(appended, cells)
  /\ UNCHANGED <<pc, output>>
  /\ TableIdle

TableHideColumn ==
  /\ cmd = "table"
  /\ pc = "open"
  /\ Cardinality(CallsOf("HideColumn") \cup CallsOf("HideRows")) < MaxTableHides
  /\ \E index \in {1, 2, Len(table.header) + 1} :
       /\ table' = HideColumn(table, index)
       /\ calls' = Append(calls, Call("HideColumn", index, FALSE))
  /\ UNCHANGED <<pc, output, appended>>
  /\ TableIdle

TableHideRows ==
  /\ cmd = "table"
  /\ pc = "open"
  /\ Cardinality(CallsOf("HideColumn") \cup CallsOf("HideRows")) < MaxTableHides
  /\ \E indices \in SUBSET (1..Len(GetRows(table))) :
       /\ table' = HideRows(table, indices)
       /\ calls' = Append(calls, CallSet("HideRows", indices))
  /\ UNCHANGED <<pc, output, appended>>
  /\ TableIdle

TableRender ==
  /\ cmd = "table"
  /\ pc = "open"
  /\ output' = Render(table)
  /\ calls' = Append(calls, Call("Render", 0, FALSE))
  /\ pc' = "done"
  /\ UNCHANGED <<table, appended>>
  /\ TableIdle

TableNext ==
  \/ TableAddRow
  \/ TableHideColumn
  \/ TableHideRows
  \/ TableRender

TableSpec == TableInit /\ [][TableNext]_vars

(***************************************************************************)
(* Properties.                                                             *)
(***************************************************************************)
\* the run ended before a table was built
FetchFailed == pc = "done" /\ calls = <<>>

\* every call of op1 comes before every call of op2
AllBefore(op1, op2) == \A i \in CallsOf(op1), j \in CallsOf(op2) : i < j

AtMostOnce(op) == Cardinality(CallsOf(op)) <= 1

\* SetHeader once, before the first row (and exactly once in a run that got
\* as far as building the table)
HeaderOnceFirst ==
  /\ AtMostOnce("SetHeader")
  /\ AllBefore("SetHeader", "AddRow")
  /\ (pc \notin {"start", "header"} /\ ~FetchFailed
        => Cardinality(CallsOf("SetHeader")) = 1)

\* op is called at most once, after the last row and before rendering
OnceAfterRowsBeforeRender(op) ==
  /\ AtMostOnce(op)
  /\ AllBefore("AddRow", op)
  /\ AllBefore(op, "Render")

C6_RowsFitHeader ==
  /\ \A i \in CallsOf("AddRow") :
       ~calls[i].err /\ calls[i].arg = Len(table.header)
  /\ \A i \in DOMAIN appended : Len(appended[i]) = Len(table.header)
  /\ \A i \in DOMAIN table.rows : Len(table.rows[i]) = Len(table.header)
  /\ (CallsOf("SortByNames") = {} => table.rows = appended)

\* a tree view of Status with a Pod/ line and container lines, and a flat
\* view of the same width check, reached and rendered
C6_Witness ==
  /\ cmd = "status"
  /\ flags.treeView
  /\ flags.labelName # ""
  /\ Len(table.rows) >= 4
  /\ ret = "nil"

\* C7: the column Status passes to ListOutOfRange is the RESTARTS column of
\* the header.
C7_OutlierColumnIsRestarts ==
  \A i \in CallsOf("ListOutOfRange") : table.header[calls[i].arg] = "RESTARTS"

\* C8: under the previous flag the columns Status hides include READY, STARTED
\* and RESTARTS and never NAME, and every index passed to HideColumn lies
\* inside the header.
C8_PreviousHidesRestarts ==
  (cmd = "status" /\ flags.showPrevious /\ pc \in {"pods", "sort", "render", "done"}
     /\ CallsOf("SetHeader") # {} /\ ret # "error")
    => /\ \A n \in {"READY", "STARTED", "RESTARTS"} :
            ColumnIndex(table.header, n) \in table.hiddenColumns
       /\ ColumnIndex(table.header, "NAME") \notin table.hiddenColumns
       /\ \A i \in CallsOf("HideColumn") : calls[i].arg \in 1..Len(table.header)

\* C9: in tree view no command sorts or suppresses outliers: the rows are
\* rendered in the order they were appended.
C9_TreeViewKeepsOrder ==
  flags.treeView
    => /\ CallsOf("ListOutOfRange") = {}
       /\ table.rows = appended

\* C10: the PROBE cell of every row Probes adds names the probe the row was
\* built from (the key it has in the container's probe list).
C10_ProbeCellNamesProbe ==
  cmd = "probes"
    => \A i \in DOMAIN probeRows :
         probeRows[i].key # ""
           => appended[i][ColumnIndex(table.header, "PROBE")].text = probeRows[i].key

\* -1, 0, 1: how row a stands to row b under the keys, taken in priority
\* order: a numeric column by numericValue, any other by displayText, a key
\* marked descending the other way round
RECURSIVE C3_Order(_, _, _, _)
C3_Order(all, keys, a, b) ==
  IF keys = <<>> THEN 0
  ELSE LET c == ColumnIndex(table.header, Head(keys).field)
           numeric == \A i \in DOMAIN all : all[i][c].isNum
           lt == IF numeric THEN a[c].num < b[c].num
                 ELSE SeqLess(Chars(a[c].text), Chars(b[c].text))
           gt == IF numeric THEN a[c].num > b[c].num
                 ELSE SeqLess(Chars(b[c].text), Chars(a[c].text))
           up == IF lt THEN -1 ELSE IF gt THEN 1 ELSE 0
       IN  IF up = 0 THEN C3_Order(all, Tail(keys), a, b)
           ELSE IF Head(keys).descending THEN 0 - up ELSE up

\* the place of the k-th appended row in the sorted table: behind every row
\* that sorts before it and every earlier row that sorts with it
C3_Place(k) ==
  1 + Cardinality({m \in DOMAIN appended :
                     C3_Order(appended, flags.sortList, appended[m], appended[k]) < 0})
    + Cardinality({m \in 1..(k - 1) :
                     C3_Order(appended, flags.sortList, appended[m], appended[k]) = 0})

C3_Sorted == \E i \in CallsOf("SortByNames") : ~calls[i].err

\* C3: after SortByNames the rows are the appended rows, ordered by the keys
\* in priority order ("!" descending), numeric columns by numericValue and
\* the others by displayText, rows equal on every key in insertion order; the
\* restart counts "2", "10", "9" come out as 2, 9, 10.
C3_SortStableByKeys ==
  C3_Sorted =>
    /\ Len(table.rows) = Len(appended)
    /\ \A k \in DOMAIN appended : table.rows[C3_Place(k)] = appended[k]
    /\ (cmd = "status" /\ flags.sortList # <<>>
          /\ Head(flags.sortList) = Key("RESTARTS", FALSE)
        => LET c == ColumnIndex(table.header, "RESTARTS")
           IN  \A i, j \in DOMAIN table.rows :
                 i < j => Atoi(table.rows[i][c].text) <= Atoi(table.rows[j][c].text))

\* a sort on two keys that moved rows and met rows equal on every key, and a
\* sort that put the restart counts 2, 10, 9 in numeric order
C3_Witness ==
  /\ C3_Sorted
  /\ ret = "nil"
  /\ table.rows # appended
  /\ \/ /\ Len(flags.sortList) = 2
        /\ \E m, k \in DOMAIN appended :
             m < k /\ C3_Order(appended, flags.sortList, appended[m], appended[k]) = 0
     \/ /\ flags.sortList = <<Key("RESTARTS", FALSE)>>
        /\ Len(appended) = 3
        /\ [i \in 1..3 |-> appended[i][ColumnIndex(table.header, "RESTARTS")].text]
             = <<"2", "10", "9">>

\* row i of the table is in the rendered output
Rendered(i) == \E k \in DOMAIN output.rows : output.rows[k].index = i

\* the row satisfies the expression, '=' and 'in' matching displayText
C4_SatisfiesText(row, e) ==
  LET c == ColumnIndex(table.header, e.field)
      hit == \E k \in DOMAIN e.values : row[c].text = e.values[k]
  IN  IF e.op = "!=" THEN ~hit ELSE hit

\* the row satisfies the expression, '=' and 'in' matching displayText on a
\* text column and numericValue on a numeric column
C4_Satisfies(row, e) ==
  LET c == ColumnIndex(table.header, e.field)
      numeric == \A i \in DOMAIN table.rows : table.rows[i][c].isNum
      hit == \E k \in DOMAIN e.values :
               IF numeric
               THEN Atoi(e.values[k]) # -1 /\ row[c].num = Atoi(e.values[k])
               ELSE row[c].text = e.values[k]
  IN  IF e.op = "!=" THEN ~hit ELSE hit

C5_HiddenColumns ==
  {calls[i].arg : i \in CallsOf("HideColumn")} \cap (1..Len(table.header))

C5_HiddenRows == UNION {calls[i].set : i \in CallsOf("HideRows")}

RECURSIVE C5_Kept(_, _)
C5_Kept(n, hidden) ==
  IF n = 0 THEN <<>>
  ELSE C5_Kept(n - 1, hidden) \o (IF n \in hidden THEN <<>> ELSE <<n>>)

\* C5: whatever HideColumn and HideRows calls were made, GetRows returns the
\* rows as they were appended, every cell of every column; only the rendered
\* output leaves the hidden columns and the hidden rows out.
C5_HidingKeepsRows ==
  /\ GetRows(table) = appended
  /\ pc = "done" =>
       LET rows == C5_Kept(Len(appended), C5_HiddenRows)
           cols == C5_Kept(Len(table.header), C5_HiddenColumns)
       IN  /\ output.header = [j \in DOMAIN cols |-> table.header[cols[j]]]
           /\ Len(output.rows) = Len(rows)
           /\ \A k \in DOMAIN rows :
                /\ output.rows[k].index = rows[k]
                /\ output.rows[k].cells
                     = [j \in DOMAIN cols |-> appended[rows[k]][cols[j]].text]

\* a column hidden twice, rows hidden in two calls, and the table rendered
\* with a row and a column left
C5_Witness ==
  /\ pc = "done"
  /\ Len(appended) = 2
  /\ \E i, j \in CallsOf("HideColumn") : i < j /\ calls[i].arg = calls[j].arg
  /\ \E i \in CallsOf("HideRows") : calls[i].set # {}
  /\ Len(output.rows) = 1
  /\ Len(output.header) = 2

\* the rows of the status table that statusBuildRow built: in tree view the
\* Pod/ lines come from podStatusBuildRow
C11_ContainerRows ==
  {i \in DOMAIN appended :
     flags.treeView
       => appended[i][ColumnIndex(table.header, "NAME")].text
            \notin {"Pod/" \o p.name : p \in Pods \cup {PodP3}}}

\* C11: a row statusBuildRow built has an empty AGE cell whenever the state
\* it shows has no start time, that is when the state is Waiting and when
\* none of Waiting, Terminated, Running is set (the STATE cell is empty); AGE
\* is non-empty only when the state is Terminated or Running.
C11_AgeEmptyWithoutStartTime ==
  cmd = "status"
    => \A i \in C11_ContainerRows :
         LET state == appended[i][ColumnIndex(table.header, "STATE")].text
             age == appended[i][ColumnIndex(table.header, "AGE")].text
         IN  /\ state \in {"", "Waiting"} => age = ""
             /\ age # "" => state \in {"Terminated", "Running"}

====
